---- MODULE Spec2Model ----
(***************************************************************************)
(* Model of the embedding / similarity-search API (src/app/api.py) and of  *)
(* the image preprocessor (src/image_processor.py).                        *)
(*                                                                         *)
(* The module-level start-up code of api.py is a sequence of steps, the    *)
(* three request handlers and the health check are actions on in-flight    *)
(* requests, and tensors / arrays are records carrying dtype, shape and    *)
(* data so that every conversion on the request path is modelled by what   *)
(* it does.                                                                *)
(***************************************************************************)
EXTENDS Integers, Sequences, FiniteSets, Bags, TLC

VARIABLES
    env,                              \* files, hub cache and hardware the process finds
    pc,                               \* position in the module-level code of api.py
    error,                            \* exception that ended start-up, or "none"
    tokenizer,                        \* api.py:53
    device,                           \* api.py:92
    decoder,                          \* api.py:96
    image_feature_extraction_model,   \* api.py:99
    text_feature_extraction_model,    \* api.py:100
    index,                            \* api.py:121
    app,                              \* api.py:127
    requests,                         \* per worker thread: the request it is handling
    pil_image,                        \* image handed to process_image_as_pil
    image_tensor                      \* what process_image_as_pil returned for it

vars == <<env, pc, error, tokenizer, device, decoder,
          image_feature_extraction_model, text_feature_extraction_model,
          index, app, requests, pil_image, image_tensor>>

globals == [device  |-> device,
            decoder |-> decoder,
            image   |-> image_feature_extraction_model,
            text    |-> text_feature_extraction_model,
            index   |-> index]

(***************************************************************************)
(* Program constants                                                       *)
(***************************************************************************)
EmbeddingDim == 1000          \* torch.nn.Linear(768, 1000); resnet50 is 1000-way
PooledDim == 768              \* width of BERT's pooler_output
TopK == 3                     \* index.search(embeddings, 3)
DefaultImageSize == 224       \* image_size:int = 224
MaxPositionEmbeddings == 512  \* bert-base-cased: longest token sequence the encoder accepts

(***************************************************************************)
(* Bounds of the model                                                     *)
(***************************************************************************)
MaxBatches == 3               \* forward passes of the image model that are explored
MaxSide == 4                  \* every image side 1..MaxSide is tried by the preprocessor

Threads == {"w1", "w2"}       \* worker threads running the synchronous handlers

None == [none |-> TRUE]

\* value, read from the table when the table holds it under key. The tables
\* below hold the long vectors of the inputs that are explored, so that they
\* are computed once.
Memo(table, key, value) ==
    IF \E e \in table : e.key = key
    THEN (CHOOSE e \in table : e.key = key).value
    ELSE value

\* The sequence f, with its elements computed once.
Tuple(f) == f \o << >>

Min2(a, b) == IF a <= b THEN a ELSE b

Max2(a, b) == IF a >= b THEN a ELSE b

\* Sum of a sequence of non-negative integers: the size of the bag holding
\* f[n] + 1 copies of each n, less one copy of each.
Sum(f) == BagCardinality([n \in DOMAIN f |-> f[n] + 1]) - Len(f)

(***************************************************************************)
(* Images and the preprocessor (src/image_processor.py)                    *)
(***************************************************************************)
ImageModes == {"RGB", "RGBA", "L", "P", "CMYK"}

\* Number of bands of a PIL mode.
Bands(mode) ==
    CASE mode = "L" -> 1
      [] mode = "P" -> 1
      [] mode = "RGB" -> 3
      [] mode = "RGBA" -> 4
      [] mode = "CMYK" -> 4

\* clean_images.resize_image: scale so that the longer side is final_size,
\* paste centred on a black RGB canvas of final_size x final_size.
resize_image(final_size, im) ==
    LET longer == Max2(im.w, im.h)
        new_w  == (im.w * final_size) \div longer
        new_h  == (im.h * final_size) \div longer
    IN  [mode   |-> "RGB",
         w      |-> final_size,
         h      |-> final_size,
         pixels |-> [source |-> im.pixels,
                     box    |-> <<(final_size - new_w) \div 2,
                                  (final_size - new_h) \div 2,
                                  new_w, new_h>>]]

\* torchvision.transforms.PILToTensor: uint8 tensor, channel-first (C, H, W).
PILToTensor(im) ==
    [dtype |-> "uint8",
     shape |-> <<Bands(im.mode), im.h, im.w>>,
     data  |-> im.pixels]

\* Tensor.unsqueeze(0): a new leading dimension of size 1.
unsqueeze0(t) == [t EXCEPT !.shape = <<1>> \o t.shape]

\* A dropped unsqueeze(0): the tensor keeps its (C, H, W) shape.
process_image_as_pil_no_batch(image, image_size) ==
    PILToTensor(resize_image(image_size, image))

\* image_processor.process_image_as_pil
process_image_as_pil(image, image_size) ==
    LET cleaned_img == resize_image(image_size, image)
    IN  unsqueeze0(PILToTensor(cleaned_img))

(***************************************************************************)
(* Tensors and arrays: [dtype, shape, data]; 2-D data is a sequence of     *)
(* rows.                                                                   *)
(***************************************************************************)
Array2(dtype, rows) ==
    [dtype |-> dtype,
     shape |-> <<Len(rows), IF Len(rows) = 0 THEN 0 ELSE Len(rows[1])>>,
     data  |-> rows]

\* Tensor.to('cpu').detach().numpy(), np.array(...): same dtype, shape, values.
numpy(t) == t

\* ndarray.tolist(): nested Python lists of Python floats.
tolist(a) == a.data

\* np.array(list of lists of Python floats): a float64 array.
np_array(rows) == Array2("float64", rows)

\* np.concatenate((a, b), axis = 1): rows joined pairwise, a's columns first.
np_concatenate_axis1(a, b) ==
    Array2(a.dtype, Tuple([r \in 1..Len(a.data) |-> a.data[r] \o b.data[r]]))

\* ndarray.astype('float32'). Every value of the model is a small integer,
\* which float32 represents exactly.
astype_float32(a) == [a EXCEPT !.dtype = "float32"]

\* fastapi.responses.JSONResponse(content): status 200, body = the JSON text.
JSONResponse(content) == [status_code |-> 200, body |-> [json |-> content]]

\* json.loads(response.body)
json_loads(body) == body.json

\* What the server answers when a handler raises.
InternalServerError == [status_code |-> 500, body |-> [json |-> [detail |-> "Internal Server Error"]]]

(***************************************************************************)
(* Inputs that clients send                                                *)
(***************************************************************************)
\* Uploaded files. a.png and a.bmp decode to identical pixel content.
Uploads ==
    { [file |-> "a.png",   decodable |-> TRUE,  w |-> 50,  h |-> 100, mode |-> "RGB", pixels |-> 1],
      [file |-> "a.bmp",   decodable |-> TRUE,  w |-> 50,  h |-> 100, mode |-> "RGB", pixels |-> 1],
      [file |-> "b.jpg",   decodable |-> TRUE,  w |-> 640, h |-> 480, mode |-> "L",   pixels |-> 0],
      [file |-> "bad.bin", decodable |-> FALSE, w |-> 1,   h |-> 1,   mode |-> "L",   pixels |-> 0] }

NoUpload == [file |-> "", decodable |-> FALSE, w |-> 1, h |-> 1, mode |-> "L", pixels |-> 0]

\* PIL.Image.open(image.file) of a decodable upload.
Image_open(upload) ==
    [w |-> upload.w, h |-> upload.h, mode |-> upload.mode, pixels |-> upload.pixels]

\* Form texts, with the number of wordpieces the tokenizer splits them into.
Texts ==
    { [id |-> "empty", wordpieces |-> 0],
      [id |-> "short", wordpieces |-> 2],
      [id |-> "full",  wordpieces |-> MaxPositionEmbeddings - 2],
      [id |-> "long",  wordpieces |-> MaxPositionEmbeddings - 1] }

NoText == [id |-> "", wordpieces |-> 0]

\* The tensors of the decodable uploads.
UploadTensors ==
    { process_image_as_pil(Image_open(u), DefaultImageSize) : u \in {v \in Uploads : v.decodable} }

(***************************************************************************)
(* FeatureExtractor (api.py:21-51): resnet50, whose BatchNorm layers       *)
(* normalise with the statistics of the batch while the module is in       *)
(* training mode and with the running statistics otherwise; in training    *)
(* mode every forward pass also updates the running statistics.            *)
(***************************************************************************)
\* A summary of the pixel content that reaches the network.
PixelSeed(data) == data.source

\* FeatureExtractor.__init__: nn.Module starts in training mode;
\* resnet50(weights='IMAGENET1K_V1') brings its weights and buffers.
FeatureExtractor(dec) ==
    [training            |-> TRUE,
     weights             |-> "IMAGENET1K_V1",
     running_mean        |-> 0,
     num_batches_tracked |-> 0,
     decoder             |-> dec,
     device              |-> "cpu"]

\* The 1000 logits for one image, given the statistics BatchNorm normalises with.
Logits(weights, stat, data) ==
    LET base == (IF weights = "image_model.pt" THEN 1 ELSE 2) + 3 * stat + PixelSeed(data)
    IN  Tuple([j \in 1..EmbeddingDim |-> ((base + j) % 7) - 3])

\* Logits of the uploads, for the statistics that occur.
LogitsMemo ==
    { [key |-> <<w, stat, t.data>>, value |-> Logits(w, stat, t.data)] :
        w \in {"image_model.pt"}, stat \in {0, 1, 10}, t \in UploadTensors }

\* BatchNorm that normalises with the running statistics although it is training.
BatchNormStat_running(model, data) == model.running_mean

\* The statistics BatchNorm normalises with.
BatchNormStat(model, data) ==
    IF model.training THEN 10 * PixelSeed(data) ELSE model.running_mean

\* FeatureExtractor.forward: X = image.float(); X = self.layers(X)
FeatureExtractor_forward(model, image) ==
    LET X == [image EXCEPT !.dtype = "float32"]
        stat == BatchNormStat(model, X.data)
    IN  Array2("float32", <<Memo(LogitsMemo, <<model.weights, stat, X.data>>,
                                 Logits(model.weights, stat, X.data))>>)

\* The module after a forward pass: in training mode BatchNorm updates its buffers
\* (momentum 0.1).
FeatureExtractor_after_forward(model, image) ==
    IF model.training
    THEN [model EXCEPT
            !.running_mean = (9 * model.running_mean + 10 * PixelSeed(image.data)) \div 10,
            !.num_batches_tracked = model.num_batches_tracked + 1]
    ELSE model

(***************************************************************************)
(* BertNeuralNetwork (api.py:55-83)                                        *)
(***************************************************************************)
\* BertModel.from_pretrained returns the encoder in evaluation mode; the
\* wrapping module and its Dropout/Linear head start in training mode.
BertNeuralNetwork(dec) ==
    [training      |-> TRUE,
     bert_training |-> FALSE,
     weights       |-> "bert-base-cased",
     device        |-> "cpu"]

\* tokenizer(text, return_tensors="pt"): [CLS] + wordpieces + [SEP], no truncation.
Tokenize(text) ==
    [input_ids      |-> [shape |-> <<1, text.wordpieces + 2>>, text |-> text.id],
     attention_mask |-> [shape |-> <<1, text.wordpieces + 2>>]]

\* The encoder looks up one position embedding per token.
BertAccepts(X) == X.input_ids.shape[2] <= MaxPositionEmbeddings

\* self.bert(**X)['pooler_output'], in tenths: one row of PooledDim values.
BertPooled(X) ==
    LET text == X.input_ids.text
    IN  <<Tuple([k \in 1..PooledDim |->
                  CASE text = "empty" -> IF k % 2 = 0 THEN 7 ELSE 0
                    [] text = "short" -> 7
                    [] OTHER -> -7])>>

\* The element-wise outcomes of Dropout's random mask that are explored.
DropoutMasks == {"keep_all", "drop_odd"}

Kept(mask, k) == mask = "keep_all" \/ k % 2 = 0

\* torch.nn.Dropout(p=0.3): in training mode zero the masked elements and scale
\* the others by 1/(1-p); in evaluation mode the identity.
Dropout(training, mask, x) ==
    IF training
    THEN [r \in DOMAIN x |->
            LET row == x[r]
            IN  Tuple([k \in DOMAIN row |->
                          IF Kept(mask, k) THEN (row[k] * 10) \div 7 ELSE 0])]
    ELSE x

\* torch.nn.Linear(768, 1000) with the loaded weights: output j reads input
\* ((j-1) mod 768)+1 and adds bias j mod 3.
Linear(x) ==
    [r \in DOMAIN x |->
        LET row == x[r]
        IN  Tuple([j \in 1..EmbeddingDim |-> row[((j - 1) % PooledDim) + 1] + (j % 3)])]

\* Head outputs of the texts the encoder accepts.
HeadMemo ==
    { [key |-> <<training, mask, Tokenize(t)>>,
       value |-> Linear(Dropout(training, mask, BertPooled(Tokenize(t))))] :
        training \in BOOLEAN, mask \in DropoutMasks,
        t \in {v \in Texts : BertAccepts(Tokenize(v))} }

\* BertNeuralNetwork.forward: bert, pooler_output, then the Dropout/Linear head.
BertNeuralNetwork_forward(model, mask, X) ==
    Array2("float32", Memo(HeadMemo, <<model.training, mask, X>>,
                           Linear(Dropout(model.training, mask, BertPooled(X)))))

(***************************************************************************)
(* The similarity index: a flat L2 index as unpickled from faiss_pickle    *)
(***************************************************************************)
\* The models as they are after start-up, on the CPU.
LoadedImageModel == [FeatureExtractor(None) EXCEPT !.weights = "image_model.pt"]

LoadedTextModel == [BertNeuralNetwork(None) EXCEPT !.weights = "text_model.pt"]

\* The 2000-component vector of a catalogue item, from its image and its text.
ItemVector(item) ==
    LET img == FeatureExtractor_forward(LoadedImageModel,
                   process_image_as_pil(Image_open(item.image), DefaultImageSize))
        txt == BertNeuralNetwork_forward(LoadedTextModel, item.mask, Tokenize(item.text))
    IN  astype_float32(np_concatenate_axis1(img, txt)).data[1]

Upload(file) == CHOOSE u \in Uploads : u.file = file

Text(id) == CHOOSE t \in Texts : t.id = id

\* The catalogue items each pickled index was built from, in index order.
IndexItems(artifact) ==
    CASE artifact = "faiss_small" ->
            << [image |-> Upload("a.png"), text |-> Text("short"), mask |-> "keep_all"],
               [image |-> Upload("b.jpg"), text |-> Text("short"), mask |-> "keep_all"] >>
      [] artifact = "faiss_full" ->
            << [image |-> Upload("a.png"), text |-> Text("short"), mask |-> "keep_all"],
               [image |-> Upload("a.png"), text |-> Text("empty"), mask |-> "keep_all"],
               [image |-> Upload("b.jpg"), text |-> Text("short"), mask |-> "keep_all"] >>
      [] OTHER -> << >>

\* The flat index built from a catalogue: dimension, size, stored vectors.
BuildIndex(items) ==
    [d      |-> 2 * EmbeddingDim,
     ntotal |-> Len(items),
     xb     |-> Tuple([n \in 1..Len(items) |-> ItemVector(items[n])])]

FaissSmall == BuildIndex(IndexItems("faiss_small"))

FaissFull == BuildIndex(IndexItems("faiss_full"))

\* pickle.load(faiss_pickle): the unpickled index object.
PickledIndex(artifact) == [pickle |-> artifact]

\* The content of an unpickled index.
Content(idx) == IF idx.pickle = "faiss_full" THEN FaissFull ELSE FaissSmall

\* Squared L2 distance.
L2sqr(x, y) ==
    Sum([n \in 1..Len(x) |-> (x[n] - y[n]) * (x[n] - y[n])])

\* The query vectors of the explored image/text pairs.
Queries ==
    { ItemVector([image |-> u, text |-> t, mask |-> mask]) :
        u \in {v \in Uploads : v.decodable},
        t \in {v \in Texts : BertAccepts(Tokenize(v))},
        mask \in DropoutMasks }

\* Their distances to the stored vectors of each index.
DistanceMemo ==
    UNION { { [key |-> <<PickledIndex(a), q, n>>,
               value |-> L2sqr(q, Content(PickledIndex(a)).xb[n])] :
                 n \in 1..Content(PickledIndex(a)).ntotal, q \in Queries } :
            a \in {"faiss_small", "faiss_full"} }

\* Distance of query q to the n-th stored vector.
Distance(idx, q, n) ==
    Memo(DistanceMemo, <<idx, q, n>>, L2sqr(q, Content(idx).xb[n]))

\* The labels in stored order instead of by distance.
SearchRow_unsorted(idx, q, k) ==
    Tuple([p \in 1..k |-> IF p <= Content(idx).ntotal THEN p - 1 ELSE -1])

\* Labels of the k nearest stored vectors of one query row, nearest first
\* (0-based, ties by label); -1 fills the positions past ntotal.
SearchRow(idx, q, k) ==
    LET ntotal == Content(idx).ntotal
        dist == Tuple([n \in 1..ntotal |-> Distance(idx, q, n)])
        Before(a, b) == dist[a] < dist[b] \/ (dist[a] = dist[b] /\ a < b)
        Rank(n) == Cardinality({m \in 1..ntotal : Before(m, n)}) + 1
    IN  Tuple([p \in 1..k |->
                  IF p <= ntotal
                  THEN (CHOOSE n \in 1..ntotal : Rank(n) = p) - 1
                  ELSE -1])

\* The index accepts float32 rows of its own dimension.
index_accepts(idx, x) ==
    x.dtype = "float32" /\ Len(x.shape) = 2 /\ x.shape[2] = Content(idx).d

\* index.search(x, k)[1]: one row of k labels per query row.
index_search(idx, x, k) ==
    Array2("int64", Tuple([r \in 1..Len(x.data) |-> SearchRow(idx, x.data[r], k)]))

(***************************************************************************)
(* Start-up: the module-level code of api.py, lines 53 and 90-128          *)
(***************************************************************************)
FeatureExtractionError ==
    "OSError: No Feature Extraction model found. Check that you have the decoder and the model in the correct location."

ImageModelError ==
    "OSError: No Image model found. Check that you have the encoder and the model in the correct location."

TokenizerError == "OSError: Can't load tokenizer for 'bert-base-cased'."

IdleRequest ==
    [pc |-> "idle", kind |-> "none", image |-> NoUpload, text |-> NoText,
     response |-> None, search |-> None]

Environments ==
    [hub            : BOOLEAN,
     cuda           : BOOLEAN,
     decoder_pickle : BOOLEAN,
     image_model_pt : BOOLEAN,
     text_model_pt  : BOOLEAN,
     faiss_pickle   : {"missing", "faiss_small", "faiss_full"}]

Init ==
    /\ env \in Environments
    /\ pc = "tokenizer"
    /\ error = "none"
    /\ tokenizer = None
    /\ device = None
    /\ decoder = None
    /\ image_feature_extraction_model = None
    /\ text_feature_extraction_model = None
    /\ index = None
    /\ app = None
    /\ requests = [w \in Threads |-> IdleRequest]
    /\ pil_image = None
    /\ image_tensor = None

\* The interpreter stops on an uncaught exception.
Abort(message) ==
    /\ pc' = "aborted"
    /\ error' = message

\* api.py:53  tokenizer = BertTokenizer.from_pretrained('bert-base-cased')
LoadTokenizer ==
    /\ pc = "tokenizer"
    /\ IF env.hub
       THEN /\ tokenizer' = [name |-> "bert-base-cased"]
            /\ pc' = "device"
            /\ error' = error
       ELSE /\ Abort(TokenizerError)
            /\ tokenizer' = tokenizer
    /\ UNCHANGED <<env, device, decoder, image_feature_extraction_model,
                   text_feature_extraction_model, index, app, requests,
                   pil_image, image_tensor>>

\* api.py:92
SelectDevice ==
    /\ pc = "device"
    /\ device' = [type |-> IF env.cuda THEN "cuda" ELSE "cpu"]
    /\ pc' = "decoder"
    /\ UNCHANGED <<env, error, tokenizer, decoder, image_feature_extraction_model,
                   text_feature_extraction_model, index, app, requests,
                   pil_image, image_tensor>>

\* api.py:95-96, and the except clause of lines 115-116
LoadDecoder ==
    /\ pc = "decoder"
    /\ IF env.decoder_pickle
       THEN /\ decoder' = [pickle |-> "decoder_pickle"]
            /\ pc' = "models"
            /\ error' = error
       ELSE /\ Abort(FeatureExtractionError)
            /\ decoder' = decoder
    /\ UNCHANGED <<env, tokenizer, device, image_feature_extraction_model,
                   text_feature_extraction_model, index, app, requests,
                   pil_image, image_tensor>>

\* api.py:99-104: construct both models and move them to the device
CreateModels ==
    /\ pc = "models"
    /\ image_feature_extraction_model' =
            [FeatureExtractor(decoder) EXCEPT !.device = device.type]
    /\ text_feature_extraction_model' =
            [BertNeuralNetwork(decoder) EXCEPT !.device = device.type]
    /\ pc' = "image_parameters"
    /\ UNCHANGED <<env, error, tokenizer, device, decoder, index, app, requests, pil_image, image_tensor>>

\* api.py:107-108: load_state_dict replaces parameters and buffers, not the mode
LoadImageParameters ==
    /\ pc = "image_parameters"
    /\ IF env.image_model_pt
       THEN /\ image_feature_extraction_model' =
                    [image_feature_extraction_model EXCEPT
                        !.weights = "image_model.pt",
                        !.running_mean = 0,
                        !.num_batches_tracked = 0]
            /\ pc' = "text_parameters"
            /\ error' = error
       ELSE /\ Abort(FeatureExtractionError)
            /\ image_feature_extraction_model' = image_feature_extraction_model
    /\ UNCHANGED <<env, tokenizer, device, decoder, text_feature_extraction_model,
                   index, app, requests, pil_image, image_tensor>>

\* api.py:110-111
LoadTextParameters ==
    /\ pc = "text_parameters"
    /\ IF env.text_model_pt
       THEN /\ text_feature_extraction_model' =
                    [text_feature_extraction_model EXCEPT !.weights = "text_model.pt"]
            /\ pc' = "index"
            /\ error' = error
       ELSE /\ Abort(FeatureExtractionError)
            /\ text_feature_extraction_model' = text_feature_extraction_model
    /\ UNCHANGED <<env, tokenizer, device, decoder, image_feature_extraction_model,
                   index, app, requests, pil_image, image_tensor>>

\* A bare "except: pass" in place of the raise of line 124.
LoadIndex_swallow ==
    /\ pc = "index"
    /\ index' = IF env.faiss_pickle # "missing" THEN PickledIndex(env.faiss_pickle) ELSE index
    /\ pc' = "app"
    /\ UNCHANGED <<env, error, tokenizer, device, decoder, image_feature_extraction_model,
                   text_feature_extraction_model, app, requests,
                   pil_image, image_tensor>>

\* api.py:118-124
LoadIndex ==
    /\ pc = "index"
    /\ IF env.faiss_pickle # "missing"
       THEN /\ index' = PickledIndex(env.faiss_pickle)
            /\ pc' = "app"
            /\ error' = error
       ELSE /\ Abort(ImageModelError)
            /\ index' = index
    /\ UNCHANGED <<env, tokenizer, device, decoder, image_feature_extraction_model,
                   text_feature_extraction_model, app, requests,
                   pil_image, image_tensor>>

\* api.py:127-133, 136, 163, 184, 219-220: the app, its routes, the server
CreateApp ==
    /\ pc = "app"
    /\ app' = [routes |-> {"/healthcheck", "/predict/feature_embedding/image",
                           "/predict/feature_embedding/text", "/predict/similar_images"}]
    /\ pc' = "serving"
    /\ UNCHANGED <<env, error, tokenizer, device, decoder,
                   image_feature_extraction_model, text_feature_extraction_model,
                   index, requests, pil_image, image_tensor>>

(***************************************************************************)
(* The handlers (api.py:130-217) as functions of the process-wide objects  *)
(***************************************************************************)
\* The network is a 2-D convolutional stack over batches of 3-channel images.
FeatureExtractor_accepts(t) == Len(t.shape) = 4 /\ t.shape[2] = 3

\* api.py:130-133
healthcheck_wrong_message == [status_code |-> 200, body |-> [json |-> [message |-> "OK"]]]

healthcheck == JSONResponse([message |-> "API is up and running!"])

\* api.py:136-161. Yields the response (or that the call raised) and the image
\* model as the forward pass leaves it.
predict_image(model, upload) ==
    IF ~upload.decodable
    THEN [raised |-> TRUE, response |-> None, model |-> model]
    ELSE LET pil    == Image_open(upload)
             tensor == process_image_as_pil(pil, DefaultImageSize)
         IN  IF ~FeatureExtractor_accepts(tensor)
             THEN [raised |-> TRUE, response |-> None, model |-> model]
             ELSE LET feature_embeddings ==
                          tolist(numpy(FeatureExtractor_forward(model, tensor)))
                  IN  [raised   |-> FALSE,
                       response |-> JSONResponse([features |-> feature_embeddings]),
                       model    |-> FeatureExtractor_after_forward(model, tensor)]

\* api.py:163-182. mask is the outcome of Dropout's random draw.
predict_text(model, text, mask) ==
    LET input_dictionary == Tokenize(text)
    IN  IF ~BertAccepts(input_dictionary)
        THEN [raised |-> TRUE, response |-> None]
        ELSE LET model_output ==
                     tolist(numpy(BertNeuralNetwork_forward(model, mask, input_dictionary)))
             IN  [raised   |-> FALSE,
                  response |-> JSONResponse([features |-> model_output])]

\* api.py:210: the arguments of index.search
search_args(embeddings) == [x |-> embeddings, k |-> TopK]

\* api.py:184-217
predict_combined(image_model, text_model, idx, upload, text, mask) ==
    LET image_call == predict_image(image_model, upload)
    IN  IF image_call.raised
        THEN [raised |-> TRUE, response |-> None, model |-> image_call.model, search |-> None]
        ELSE
        LET text_call == predict_text(text_model, text, mask)
        IN  IF text_call.raised
            THEN [raised |-> TRUE, response |-> None, model |-> image_call.model,
                  search |-> None]
            ELSE
            LET image_embeddings == np_array(json_loads(image_call.response.body).features)
                text_embeddings  == np_array(json_loads(text_call.response.body).features)
                embeddings == astype_float32(
                                  np_concatenate_axis1(image_embeddings, text_embeddings))
                call == search_args(embeddings)
            IN  IF ~index_accepts(idx, call.x)
                THEN [raised |-> TRUE, response |-> None, model |-> image_call.model,
                      search |-> call]
                ELSE [raised   |-> FALSE,
                      response |-> JSONResponse(
                                      [similar_index |-> tolist(index_search(idx, call.x, call.k))]),
                      model    |-> image_call.model,
                      search   |-> call]

(***************************************************************************)
(* Requests. Each synchronous handler runs on a worker thread of the       *)
(* server's pool; a request that is never handled further is a hung one.   *)
(***************************************************************************)
Kinds == {"healthcheck", "image", "text", "similar"}

Receive(w) ==
    /\ pc = "serving"
    /\ requests[w].pc = "idle"
    /\ \E kind \in Kinds, upload \in Uploads, text \in Texts :
          requests' = [requests EXCEPT ![w] =
              [IdleRequest EXCEPT
                  !.pc = "received",
                  !.kind = kind,
                  !.image = IF kind \in {"image", "similar"} THEN upload ELSE NoUpload,
                  !.text = IF kind \in {"text", "similar"} THEN text ELSE NoText]]
    /\ UNCHANGED <<env, pc, error, tokenizer, device, decoder,
                   image_feature_extraction_model, text_feature_extraction_model,
                   index, app, pil_image, image_tensor>>

Answer(w, call) ==
    requests' = [requests EXCEPT ![w] =
        [@ EXCEPT !.pc = "responded",
                  !.response = IF call.raised THEN InternalServerError ELSE call.response]]

Healthcheck(w) ==
    /\ pc = "serving"
    /\ requests[w].pc = "received"
    /\ requests[w].kind = "healthcheck"
    /\ Answer(w, [raised |-> FALSE, response |-> healthcheck])
    /\ UNCHANGED <<env, pc, error, tokenizer, device, decoder,
                   image_feature_extraction_model, text_feature_extraction_model,
                   index, app, pil_image, image_tensor>>

\* Another thread is inside a forward pass of the image model at the same time.
Overlapping(w) ==
    \E v \in Threads \ {w} :
        /\ requests[v].pc = "received"
        /\ requests[v].kind \in {"image", "similar"}
        /\ requests[v].image.decodable

\* The buffers after this thread's forward pass: its in-place update, or, when
\* an overlapping pass writes over it unsynchronised, the update lost.
BufferOutcomes(w, after) ==
    {after} \cup (IF Overlapping(w) THEN {image_feature_extraction_model} ELSE {})

PredictImage(w) ==
    /\ pc = "serving"
    /\ requests[w].pc = "received"
    /\ requests[w].kind = "image"
    /\ requests[w].image.decodable =>
            image_feature_extraction_model.num_batches_tracked < MaxBatches
    /\ LET call == predict_image(image_feature_extraction_model, requests[w].image)
       IN  /\ Answer(w, call)
           /\ image_feature_extraction_model' \in BufferOutcomes(w, call.model)
    /\ UNCHANGED <<env, pc, error, tokenizer, device, decoder,
                   text_feature_extraction_model, index, app, pil_image, image_tensor>>

PredictText(w) ==
    /\ pc = "serving"
    /\ requests[w].pc = "received"
    /\ requests[w].kind = "text"
    /\ \E mask \in DropoutMasks :
          Answer(w, predict_text(text_feature_extraction_model, requests[w].text, mask))
    /\ UNCHANGED <<env, pc, error, tokenizer, device, decoder,
                   image_feature_extraction_model, text_feature_extraction_model,
                   index, app, pil_image, image_tensor>>

PredictCombined(w) ==
    /\ pc = "serving"
    /\ requests[w].pc = "received"
    /\ requests[w].kind = "similar"
    /\ requests[w].image.decodable =>
            image_feature_extraction_model.num_batches_tracked < MaxBatches
    /\ \E mask \in DropoutMasks :
          LET call == predict_combined(image_feature_extraction_model,
                                       text_feature_extraction_model, index,
                                       requests[w].image, requests[w].text, mask)
          IN  /\ requests' = [requests EXCEPT ![w] =
                     [@ EXCEPT !.pc = "responded",
                               !.response = IF call.raised THEN InternalServerError
                                            ELSE call.response,
                               !.search = call.search]]
              /\ image_feature_extraction_model' \in BufferOutcomes(w, call.model)
    /\ UNCHANGED <<env, pc, error, tokenizer, device, decoder,
                   text_feature_extraction_model, index, app, pil_image, image_tensor>>

\* The response has been sent; the thread is free again.
Respond(w) ==
    /\ requests[w].pc = "responded"
    /\ requests' = [requests EXCEPT ![w] = IdleRequest]
    /\ UNCHANGED <<env, pc, error, tokenizer, device, decoder,
                   image_feature_extraction_model, text_feature_extraction_model,
                   index, app, pil_image, image_tensor>>

Next ==
    \/ LoadTokenizer
    \/ SelectDevice
    \/ LoadDecoder
    \/ CreateModels
    \/ LoadImageParameters
    \/ LoadTextParameters
    \/ LoadIndex
    \/ CreateApp
    \/ \E w \in Threads : Receive(w)
    \/ \E w \in Threads : Healthcheck(w)
    \/ \E w \in Threads : PredictImage(w)
    \/ \E w \in Threads : PredictText(w)
    \/ \E w \in Threads : PredictCombined(w)
    \/ \E w \in Threads : Respond(w)

Spec == Init /\ [][Next]_vars

(***************************************************************************)
(* The preprocessor on its own, over images of many sizes and modes        *)
(***************************************************************************)
Sides == (1..MaxSide) \cup {50, 100, 223, 224, 225, 640, 1000}

InitImage ==
    /\ env = [hub |-> TRUE, cuda |-> FALSE, decoder_pickle |-> TRUE,
              image_model_pt |-> TRUE, text_model_pt |-> TRUE,
              faiss_pickle |-> "faiss_full"]
    /\ pc = "tokenizer"
    /\ error = "none"
    /\ tokenizer = None
    /\ device = None
    /\ decoder = None
    /\ image_feature_extraction_model = None
    /\ text_feature_extraction_model = None
    /\ index = None
    /\ app = None
    /\ requests = [w \in Threads |-> IdleRequest]
    /\ pil_image \in [w : Sides, h : Sides, mode : ImageModes, pixels : {1}]
    /\ image_tensor = None

\* image_tensor = process_image_as_pil(pil_image)
Preprocess ==
    /\ image_tensor = None
    /\ image_tensor' = process_image_as_pil(pil_image, DefaultImageSize)
    /\ UNCHANGED <<env, pc, error, tokenizer, device, decoder,
                   image_feature_extraction_model, text_feature_extraction_model,
                   index, app, requests, pil_image>>

SpecImage == InitImage /\ [][Preprocess]_vars

(***************************************************************************)
(* Properties                                                              *)
(***************************************************************************)
Answered(w) == requests[w].pc = "responded"

Succeeded(w, kind) ==
    /\ Answered(w)
    /\ requests[w].kind = kind
    /\ requests[w].response.status_code = 200

Features(w) == requests[w].response.body.json.features

SamePixels(a, b) ==
    a.pixels = b.pixels /\ a.w = b.w /\ a.h = b.h /\ a.mode = b.mode

AllLoaded ==
    /\ decoder # None
    /\ image_feature_extraction_model # None
    /\ image_feature_extraction_model.weights = "image_model.pt"
    /\ text_feature_extraction_model # None
    /\ text_feature_extraction_model.weights = "text_model.pt"
    /\ index # None

\* C1: the app exists, and requests are handled, only when the decoder, both
\* weight files and the index have been loaded; once start-up has passed the
\* place where a missing artifact is read, it has aborted with an error and
\* without an app.
C1_StartupAllOrNothing ==
    /\ (app # None \/ \E w \in Threads : requests[w].pc # "idle")
          => (pc = "serving" /\ AllLoaded)
    /\ pc = "serving" => (app # None /\ AllLoaded)
    /\ (~env.decoder_pickle /\ pc \notin {"tokenizer", "device", "decoder"})
          => pc = "aborted"
    /\ (~env.image_model_pt
          /\ pc \notin {"tokenizer", "device", "decoder", "models", "image_parameters"})
          => pc = "aborted"
    /\ (~env.text_model_pt
          /\ pc \notin {"tokenizer", "device", "decoder", "models", "image_parameters",
                        "text_parameters"})
          => pc = "aborted"
    /\ (env.faiss_pickle = "missing"
          /\ pc \notin {"tokenizer", "device", "decoder", "models", "image_parameters",
                        "text_parameters", "index"})
          => pc = "aborted"
    /\ pc = "aborted" => (app = None /\ error # "none")

\* Start-up aborted on the text weights after the decoder and the image weights loaded.
C1_Witness ==
    /\ pc = "aborted"
    /\ error = FeatureExtractionError
    /\ decoder # None
    /\ image_feature_extraction_model.weights = "image_model.pt"
    /\ ~env.text_model_pt
    /\ app = None

C3_QueryIsConcatOfEndpointEmbeddings ==
    \A w \in Threads :
        Succeeded(w, "similar") =>
            LET q == requests[w].search.x
            IN  /\ q.shape = <<1, 2000>>
                /\ Len(q.data[1]) = 2000
                /\ \A v \in Threads :
                      /\ (Succeeded(v, "image")
                            /\ SamePixels(requests[v].image, requests[w].image))
                          => SubSeq(q.data[1], 1, 1000) = Features(v)[1]
                      /\ (Succeeded(v, "text") /\ requests[v].text = requests[w].text)
                          => SubSeq(q.data[1], 1001, 2000) = Features(v)[1]

\* C4 as stated: one query row, k = 3, and a single row of exactly 3 indices of
\* stored entries, nearest first.
C4_ThreeStoredIndicesNearestFirst ==
    \A w \in Threads :
        Succeeded(w, "similar") =>
            LET call   == requests[w].search
                rows   == requests[w].response.body.json.similar_index
                ntotal == Content(index).ntotal
                d(p)   == Distance(index, call.x.data[1], rows[1][p] + 1)
            IN  /\ Len(call.x.data) = 1
                /\ call.k = 3
                /\ Len(rows) = 1
                /\ Len(rows[1]) = 3
                /\ \A p \in 1..3 : rows[1][p] \in 0..(ntotal - 1)
                /\ \A p \in 1..2 : d(p) <= d(p + 1)

\* C4 amended: one query row, k = 3, and a single row of exactly 3 integers: the
\* indices of the min(3, ntotal) nearest stored entries, nearest first, then -1
\* in every remaining position.
C4_NearestFirstThenFiller ==
    \A w \in Threads :
        Succeeded(w, "similar") =>
            LET call   == requests[w].search
                rows   == requests[w].response.body.json.similar_index
                ntotal == Content(index).ntotal
                found  == Min2(3, ntotal)
                d(p)   == Distance(index, call.x.data[1], rows[1][p] + 1)
            IN  /\ Len(call.x.data) = 1
                /\ call.k = 3
                /\ Len(rows) = 1
                /\ Len(rows[1]) = 3
                /\ \A p \in 1..3 :
                      IF p <= found THEN rows[1][p] \in 0..(ntotal - 1) ELSE rows[1][p] = -1
                /\ \A p \in 1..found, r \in 1..found : p # r => rows[1][p] # rows[1][r]
                /\ \A p \in 1..(found - 1) : d(p) <= d(p + 1)
                /\ \A n \in 1..ntotal :
                      (\A p \in 1..found : rows[1][p] # n - 1)
                          => Distance(index, call.x.data[1], n) >= d(found)

\* A search that returned three stored entries in another order than stored.
C4_Witness ==
    \E w \in Threads :
        /\ Succeeded(w, "similar")
        /\ Content(index).ntotal >= 3
        /\ requests[w].response.body.json.similar_index[1][1] # 0
        /\ \A p \in 1..3 : requests[w].response.body.json.similar_index[1][p] >= 0

\* C5: when the index stores the item made from the request's image and text,
\* the first index returned is that item's.
C5_IndexedItemRanksFirst ==
    \A w \in Threads :
        Succeeded(w, "similar") =>
            LET items == IndexItems(index.pickle)
                rows  == requests[w].response.body.json.similar_index
            IN  \A n \in 1..Len(items) :
                    (SamePixels(items[n].image, requests[w].image)
                        /\ items[n].text = requests[w].text)
                    => rows[1][1] = n - 1

C7_TextAlways1000 ==
    \A w \in Threads :
        (Answered(w) /\ requests[w].kind = "text") =>
            /\ requests[w].response.status_code = 200
            /\ Sum([r \in 1..Len(Features(w)) |-> Len(Features(w)[r])]) = 1000

\* C8: two image requests with identical pixel content get equal embeddings.
C8_ImageDeterministic ==
    \A w \in Threads, v \in Threads :
        (Succeeded(w, "image") /\ Succeeded(v, "image")
            /\ SamePixels(requests[w].image, requests[v].image))
        => Features(w) = Features(v)

\* Two files with the same pixels embedded by different requests, after at
\* least three forward passes of the image model.
C8_Witness ==
    /\ Succeeded("w1", "image")
    /\ Succeeded("w2", "image")
    /\ requests["w1"].image.file = "a.png"
    /\ requests["w2"].image.file = "a.bmp"
    /\ image_feature_extraction_model.num_batches_tracked >= 3
    /\ Len(Features("w1")[1]) = 1000

\* C9: two text requests with the same text get the same embedding.
C9_TextDeterministic ==
    \A w \in Threads, v \in Threads :
        (Succeeded(w, "text") /\ Succeeded(v, "text")
            /\ requests[w].text = requests[v].text)
        => Features(w) = Features(v)

\* C10: while serving, no step changes the device, the decoder, either model
\* (parameters and buffers) or the index.
C10_GlobalsReadOnly == [][pc = "serving" => globals' = globals]_vars

====
